---- MODULE Spec2Model ----
(***************************************************************************)
(* Model of the CiefpTvTodayDE enigma2 plugin (plugin.py): the EPG cache,  *)
(* the XML ingestion (parseXMLData), the rendering of a channel's          *)
(* programmes as display lines (getEPGFromData) and the cursor resolution  *)
(* (updateEPGAndPicon), driven by the screen's key handlers.               *)
(*                                                                         *)
(* Text is modelled as a sequence of tokens, a token being a record        *)
(* [t, s, n]: a piece of literal text, a formatted time of day "%H:%M" or  *)
(* a formatted date "%d.%m.%Y".  The delimiters the code searches for      *)
(* (" - ", " (", "---", "No EPG data") are tokens of their own, so         *)
(* str.split, str.startswith and the substring tests act on token          *)
(* boundaries.  Time is in seconds; the local time zone is UTC and day 0   *)
(* starts at second 0.  Python's None is the integer None for timestamps.  *)
(* Picons and icons (loadPicon, the icon attributes) play no part in the   *)
(* lists and the cursor and are left out.                                  *)
(***************************************************************************)
EXTENDS Integers, Sequences, FiniteSets, TLC

VARIABLES
    lxml,              \* LXML_AVAILABLE, fixed when the module is imported
    now,               \* time.time(), and the date datetime.now() gives
    cache,             \* the file EPG_DIR/epg_cache.xml
    pc,                \* the screen: "constructed", "shown", "closed"
    currentView,       \* self.currentView
    focus_on_channels, \* self.focus_on_channels
    channelData,       \* self.channelData
    epgData,           \* self.epgData
    epgLines,          \* self.epgLines
    epgScrollPos,      \* self.epgScrollPos
    channelList,       \* the MenuList self["channelList"]: its list and cursor
    epgInfo,           \* the MenuList self["epgInfo"]: its list and cursor
    tree,              \* the document the last parseXMLData call was given
    outcome,           \* how the last downloadAndParseData / parseXMLData ended
    runs,              \* how many times the plugin has been started
    run,               \* what this screen's downloadAndParseData did
    prev               \* what the previous screen's downloadAndParseData did

vars == <<lxml, now, cache, pc, currentView, focus_on_channels, channelData,
          epgData, epgLines, epgScrollPos, channelList, epgInfo, tree,
          outcome, runs, run, prev>>

(***************************************************************************)
(* Bounds of the model and constants of the program.                       *)
(***************************************************************************)
MaxChans == 2
MaxProgs == 3
MaxMixed == 2
MaxDay == 1
MaxRuns == 2
CACHE_TIME == 86400
DaySecs == 24 * 60 * 60
None == -1

Days == 0 .. MaxDay

(***************************************************************************)
(* Tokens and lines.                                                       *)
(***************************************************************************)
TXT(s) == [t |-> "txt", s |-> s, n |-> 0]
HM(m) == [t |-> "hm", s |-> "", n |-> m]
DATE(d) == [t |-> "date", s |-> "", n |-> d]

SepDash == TXT("---")
Dash == TXT(" - ")
Paren == TXT(" (")
ParenClose == TXT(")")
DescBreak == TXT("\n  ")
NoEpgData == TXT("No EPG data for channel: ")
NoValidEpgData == TXT("No valid EPG data for channel: ")

\* The message lines the code puts into the widgets.
Msg(s) == <<TXT(s)>>

\* str.split(sep): the pieces of line between the occurrences of token sep.
Split(line, sep) ==
    LET F[i \in 0 .. Len(line)] ==
            IF i = 0 THEN <<<<>>>>
            ELSE LET acc == F[i - 1]
                     k == Len(acc)
                 IN IF line[i] = sep
                    THEN Append(acc, <<>>)
                    ELSE [acc EXCEPT ![k] = Append(acc[k], line[i])]
    IN F[Len(line)]

\* "sub in line", for the texts the code looks for.
Contains(line, tok) == \E i \in DOMAIN line : line[i] = tok

\* line.startswith("---")
StartsWithDashes(line) == Len(line) > 0 /\ line[1] = SepDash

(***************************************************************************)
(* Dates and times: datetime.strptime, .timestamp(), .strftime and         *)
(* datetime.fromtimestamp.                                                 *)
(***************************************************************************)
\* one piece of a start/stop attribute, as str.split(' ') cuts it: it either
\* matches '%Y%m%d%H%M%S' (ok) and names day, minute of the day and second,
\* or it does not (a time-zone offset, an empty piece, anything else).
Stamp(d, m, s) == [ok |-> TRUE, day |-> d, min |-> m, sec |-> s]
BadPiece == [ok |-> FALSE, day |-> 0, min |-> 0, sec |-> 0]

\* int(time_obj.timestamp())
Timestamp(dt) == dt.day * DaySecs + dt.min * 60 + dt.sec
\* time_obj.strftime('%Y%m%d'): dates compare as their day numbers
StrfDate(dt) == dt.day
\* datetime.fromtimestamp(ts).strftime('%d.%m.%Y')
DateOfTs(ts) == ts \div DaySecs
\* datetime.fromtimestamp(ts).strftime('%H:%M')
HMOfTs(ts) == (ts % DaySecs) \div 60
\* strptime(f"{date} {time_str}", "%d.%m.%Y %H:%M").timestamp()
LineTime(d, m) == d * DaySecs + m * 60

(***************************************************************************)
(* The feed: what the XML parser hands to parseXMLData.  A document is     *)
(* "ok", "recoverable" (malformed, but lxml's recover mode yields the      *)
(* elements below) or "garbage" (no parser yields a tree).  An attribute   *)
(* that is missing or empty is "" / [present |-> FALSE]: the code tests    *)
(* both with `not`.  A child element is "absent", "empty" (no text) or     *)
(* "text"; text holds its text after str.strip().                          *)
(***************************************************************************)
Child(st, text) == [st |-> st, text |-> text]
Absent == Child("absent", <<>>)
Empty == Child("empty", <<>>)
Text(toks) == Child("text", toks)

NoAttr == [present |-> FALSE, pieces |-> <<>>]
TimeAttr(pieces) == [present |-> TRUE, pieces |-> pieces]

ChannelElem(id, dn, name) == [id |-> id, dn |-> dn, name |-> name]
ProgrammeElem(ch, start, stop, title, desc, category) ==
    [channel |-> ch, start |-> start, stop |-> stop, title |-> title,
     desc |-> desc, category |-> category]

Doc(wf, chans, progs) == [wf |-> wf, chans |-> chans, progs |-> progs]
XmlText(doc, eols) == [doc |-> doc, eols |-> eols]
\* the text of an empty file
EmptyText == XmlText(Doc("garbage", <<>>, <<>>), <<>>)

(***************************************************************************)
(* parseXMLData, lines 149-235.                                            *)
(***************************************************************************)
\* etree.fromstring / ET.fromstring (lines 151-159): whether a tree comes back.
\* ElementTree raises ParseError on any malformed document; lxml in recover
\* mode raises (or returns None, and tree.xpath raises) only when nothing
\* can be recovered.
FromStringRaises(doc, lx) ==
    IF lx THEN doc.wf = "garbage" ELSE doc.wf # "ok"

\* line 169: `if not channel_id or display_name is None: continue`.  With lxml
\* display_name is the list xpath returns, never None.
ChannelSkipped(ch, lx) ==
    ch.id = "" \/ (~lx /\ ch.dn = "absent")

\* line 172: display_name.text.strip() raises AttributeError when the element
\* has no text; display_name[0] raises IndexError when the list is empty.
ChannelNameRaises(ch, lx) ==
    IF lx THEN ch.dn # "text" ELSE ch.dn = "empty"

(***************************************************************************)
(* clean_channel_name, lines 57-58.  A title is a Python str; its          *)
(* characters are named here by themselves or, outside ASCII, by their     *)
(* code points: U+00D6 and U+00F6 are the capital and small O with         *)
(* diaeresis, U+0130 the capital I with dot above, U+0307 the combining    *)
(* dot above.                                                              *)
(***************************************************************************)
\* the characters of the display names of the feeds
Chars(name) ==
    CASE name = "ARD" -> <<"A", "R", "D">>
      [] name = "ZDF" -> <<"Z", "D", "F">>
      [] name = "RTL" -> <<"R", "T", "L">>
      [] name = "Das Erste" -> <<"D", "a", "s", " ", "E", "r", "s", "t", "e">>
      [] name = "Pro7.OE" -> <<"P", "r", "o", "7", ".", "-", "U+00D6">>
      [] name = "IZ TV" -> <<"U+0130", "Z", " ", "T", "V">>
      [] OTHER -> <<>>

\* the cased letters of these names: capital :> small
SmallOf ==
    "A" :> "a" @@ "D" :> "d" @@ "E" :> "e" @@ "F" :> "f" @@ "L" :> "l"
        @@ "P" :> "p" @@ "R" :> "r" @@ "T" :> "t" @@ "V" :> "v" @@ "Z" :> "z"
        @@ "U+00D6" :> "U+00F6"
Capitals == DOMAIN SmallOf \cup {"U+0130"}
Smalls == {SmallOf[c] : c \in DOMAIN SmallOf} \cup {"i", "o", "s"}
Digits == {"7"}

\* str.isalnum() of one character: letters and digits of all of Unicode, not
\* the space, the dot, the hyphen or a combining mark
isalnum(e) == e \in Capitals \cup Smalls \cup Digits
\* str.lower() of one character, a str of one or more characters: the small
\* form of U+0130 is "i" followed by U+0307
lower(e) ==
    IF e = "U+0130" THEN <<"i", "U+0307">>
    ELSE IF e \in DOMAIN SmallOf THEN <<SmallOf[e]>> ELSE <<e>>
\* str.strip(): without the white space at both ends
strip(str) ==
    LET ink == {i \in DOMAIN str : str[i] # " "}
    IN IF ink = {} THEN <<>>
       ELSE SubSeq(str, CHOOSE i \in ink : \A j \in ink : i <= j,
                   CHOOSE i \in ink : \A j \in ink : j <= i)

\* ''.join(e.lower() if e.isalnum() or e == '.' else '' for e in name).strip()
clean_channel_name(name) ==
    LET F[i \in 0 .. Len(name)] ==
            IF i = 0 THEN <<>>
            ELSE F[i - 1] \o (IF isalnum(name[i]) \/ name[i] = "."
                              THEN lower(name[i]) ELSE <<>>)
    IN strip(F[Len(name)])

\* lines 173-179, without the logo and icon fields.
ChannelRecord(ch) ==
    [id |-> ch.id, title |-> ch.name, alias |-> clean_channel_name(Chars(ch.name))]

\* the dict {}
EmptyDict == [x \in {} |-> <<>>]
\* d[k] = v
SetKey(ed, k, v) == [x \in DOMAIN ed \cup {k} |-> IF x = k THEN v ELSE ed[x]]

\* lines 164-180: the loop over the channel elements.  exc tells that an
\* exception left the loop; cd and ed are channelData and epgData as the
\* loop left them.
ChannelLoop(chans, lx) ==
    LET F[i \in 0 .. Len(chans)] ==
            IF i = 0 THEN [exc |-> FALSE, cd |-> <<>>, ed |-> EmptyDict]
            ELSE LET acc == F[i - 1]
                     ch == chans[i]
                 IN IF acc.exc \/ ChannelSkipped(ch, lx) THEN acc
                    ELSE IF ChannelNameRaises(ch, lx)
                    THEN [acc EXCEPT !.exc = TRUE]
                    ELSE [exc |-> FALSE,
                          cd |-> Append(acc.cd, ChannelRecord(ch)),
                          ed |-> SetKey(acc.ed, ch.name, <<>>)]
    IN F[Len(chans)]

\* line 198: `if not (channel_id and start_time and title): continue`; title is
\* tested against None with ElementTree and for emptiness with lxml.
ProgrammeSkipped(pr, lx) ==
    \/ pr.channel = ""
    \/ ~pr.start.present
    \/ IF lx THEN pr.title.st # "text" ELSE pr.title.st = "absent"

\* line 201: next((ch for ch in self.channelData if ch['id'] == channel_id), None),
\* as the index of the channel in cd, 0 for None.
FindChannel(cd, id) ==
    IF \E i \in DOMAIN cd : cd[i].id = id
    THEN CHOOSE i \in DOMAIN cd :
            cd[i].id = id /\ \A j \in 1 .. i - 1 : cd[j].id # id
    ELSE 0

\* lines 207-209: with ElementTree, x.text.strip() of an element without text
\* raises AttributeError.
FieldRaises(c, lx) == ~lx /\ c.st = "empty"
ProgramDataRaises(pr, lx) ==
    FieldRaises(pr.title, lx) \/ FieldRaises(pr.desc, lx)
        \/ FieldRaises(pr.category, lx)

\* lines 208-209: the text of the child, or the default when there is none.
FieldOr(c, default) == IF c.st = "text" THEN c.text ELSE default
DefaultDesc == <<TXT("Nema opisa")>>
DefaultCategory == <<>>

\* lines 214-215, 218-219: strptime(attr.split(' ')[0], '%Y%m%d%H%M%S') raises
\* ValueError unless the first piece matches.
StrptimeRaises(attr) == ~attr.pieces[1].ok

\* A variant of TimeParseRaises that lets a stop attribute that does not parse
\* pass, the programme being stored all the same.
TimeParseRaises_StartOnly(pr) == StrptimeRaises(pr.start)

\* lines 213-228: whether the try block ends in `except ValueError`.
TimeParseRaises(pr) ==
    \/ StrptimeRaises(pr.start)
    \/ pr.stop.present /\ StrptimeRaises(pr.stop)

\* lines 217-222
StopTimestamp(pr) ==
    IF pr.stop.present THEN Timestamp(pr.stop.pieces[1]) ELSE None

\* lines 206-224: program_data as it is appended.
ProgramData(pr) ==
    [title |-> pr.title.text,
     desc |-> FieldOr(pr.desc, DefaultDesc),
     category |-> FieldOr(pr.category, DefaultCategory),
     stop_timestamp |-> StopTimestamp(pr),
     start_timestamp |-> Timestamp(pr.start.pieces[1]),
     start_date |-> StrfDate(pr.start.pieces[1])]

\* A variant of ProgrammeLoop in which the ValueError of the time parsing
\* leaves the loop instead of going on with the next element.
ProgrammeLoop_Abort(progs, cd, ed0, lx) ==
    LET F[i \in 0 .. Len(progs)] ==
            IF i = 0 THEN [exc |-> FALSE, ed |-> ed0]
            ELSE LET acc == F[i - 1]
                     pr == progs[i]
                     c == FindChannel(cd, pr.channel)
                 IN IF acc.exc \/ ProgrammeSkipped(pr, lx) \/ c = 0 THEN acc
                    ELSE IF ProgramDataRaises(pr, lx) \/ TimeParseRaises(pr)
                    THEN [acc EXCEPT !.exc = TRUE]
                    ELSE [acc EXCEPT
                            !.ed[cd[c].title] = Append(@, ProgramData(pr))]
    IN F[Len(progs)]

\* lines 189-228: the loop over the programme elements.
ProgrammeLoop(progs, cd, ed0, lx) ==
    LET F[i \in 0 .. Len(progs)] ==
            IF i = 0 THEN [exc |-> FALSE, ed |-> ed0]
            ELSE LET acc == F[i - 1]
                     pr == progs[i]
                     c == FindChannel(cd, pr.channel)
                 IN IF acc.exc \/ ProgrammeSkipped(pr, lx) \/ c = 0 THEN acc
                    ELSE IF ProgramDataRaises(pr, lx)
                    THEN [acc EXCEPT !.exc = TRUE]
                    ELSE IF TimeParseRaises(pr) THEN acc
                    ELSE [acc EXCEPT
                            !.ed[cd[c].title] = Append(@, ProgramData(pr))]
    IN F[Len(progs)]

(***************************************************************************)
(* getEPGFromData, lines 237-266.                                          *)
(***************************************************************************)
\* A variant of SortedByStart that leaves the programmes as they were appended.
SortedByStart_Unsorted(epglist) == epglist

\* sorted(epglist, key=lambda x: x['start_timestamp']): a stable sort.
SortedByStart(epglist) ==
    LET Insert(srt, p) ==
            LET k == Cardinality({j \in DOMAIN srt :
                        srt[j].start_timestamp <= p.start_timestamp})
            IN SubSeq(srt, 1, k) \o <<p>> \o SubSeq(srt, k + 1, Len(srt))
        F[i \in 0 .. Len(epglist)] ==
            IF i = 0 THEN <<>> ELSE Insert(F[i - 1], epglist[i])
    IN F[Len(epglist)]

\* sorted(epg_by_date.keys())
RECURSIVE SortedKeys(_)
SortedKeys(S) ==
    IF S = {} THEN <<>>
    ELSE LET m == CHOOSE x \in S : \A y \in S : x <= y
         IN <<m>> \o SortedKeys(S \ {m})

\* A variant of Entry that leaves the default description out.
Entry_NoDefaultDesc(program) ==
    <<HM(HMOfTs(program.start_timestamp)), Dash>> \o program.title
        \o <<Paren>> \o program.category \o <<ParenClose>>
        \o (IF program.desc # <<>> /\ program.desc # DefaultDesc
            THEN <<DescBreak>> \o program.desc ELSE <<>>)

\* lines 246-250: the entry of one programme.
Entry(program) ==
    <<HM(HMOfTs(program.start_timestamp)), Dash>> \o program.title
        \o <<Paren>> \o program.category \o <<ParenClose>>
        \o (IF program.desc # <<>> THEN <<DescBreak>> \o program.desc ELSE <<>>)

\* line 261: f"--- {date_formatted} ---"
Separator(date_str) == <<SepDash, DATE(date_str), SepDash>>

\* lines 243-253: epg_by_date[date_str], the entries of one date in the order
\* of the sorted programmes.
EntriesOfDate(srt, date_str) ==
    LET F[i \in 0 .. Len(srt)] ==
            IF i = 0 THEN <<>>
            ELSE IF srt[i].start_date = date_str
                 THEN Append(F[i - 1], Entry(srt[i]))
                 ELSE F[i - 1]
    IN F[Len(srt)]

\* self.epgData.get(channel_name, [])
EpgList(ed, channel_name) ==
    IF channel_name \in DOMAIN ed THEN ed[channel_name] ELSE <<>>

getEPGFromData(ed, channel_name) ==
    LET epglist == EpgList(ed, channel_name)
        srt == SortedByStart(epglist)
        keys == SortedKeys({srt[i].start_date : i \in DOMAIN srt})
        F[k \in 0 .. Len(keys)] ==
            IF k = 0 THEN <<>>
            ELSE F[k - 1] \o <<Separator(keys[k])>>
                    \o EntriesOfDate(srt, keys[k])
        result == F[Len(keys)]
    IN IF epglist = <<>> THEN <<<<NoEpgData, TXT(channel_name)>>>>
       ELSE IF result = <<>> THEN <<<<NoValidEpgData, TXT(channel_name)>>>>
       ELSE result

(***************************************************************************)
(* The MenuList widgets (Components.MenuList, enableWrapAround=True) as    *)
(* the screen uses them: a list and the index of the selected row.         *)
(***************************************************************************)
NewMenuList == [list |-> <<>>, idx |-> 0]
\* setList keeps the cursor, moved back onto the list when it fell off it
SetList(w, l) ==
    [list |-> l,
     idx |-> IF Len(l) = 0 THEN 0
             ELSE IF w.idx >= Len(l) THEN Len(l) - 1 ELSE w.idx]
MoveToIndex(w, i) ==
    IF i >= 0 /\ i < Len(w.list) THEN [w EXCEPT !.idx = i] ELSE w
MenuUp(w) ==
    IF Len(w.list) = 0 THEN w
    ELSE [w EXCEPT !.idx = IF w.idx = 0 THEN Len(w.list) - 1 ELSE w.idx - 1]
MenuDown(w) ==
    IF Len(w.list) = 0 THEN w
    ELSE [w EXCEPT !.idx = IF w.idx = Len(w.list) - 1 THEN 0 ELSE w.idx + 1]
\* lines 313-314: getCurrent() is None on an empty list, and `if current`
\* also fails for the empty string.
HasCurrent(w) == Len(w.list) > 0 /\ w.list[w.idx + 1] # ""
GetCurrent(w) == w.list[w.idx + 1]

(***************************************************************************)
(* updateEPGAndPicon, lines 312-402.                                       *)
(***************************************************************************)
Abs(x) == IF x < 0 THEN 0 - x ELSE x

\* lines 333: the test of one programme in the search for the active one.
IsActive(program, t, current_date) ==
    /\ program.stop_timestamp # None /\ program.stop_timestamp # 0
    /\ program.start_date = current_date
    /\ program.start_timestamp <= t /\ t <= program.stop_timestamp

\* lines 327-338: current_program, as a sequence of no or one programme.
CurrentProgram(epglist, t, current_date) ==
    LET srt == SortedByStart(epglist)
        F[i \in 0 .. Len(srt)] ==
            IF i = 0 THEN <<>>
            ELSE LET acc == F[i - 1]
                     p == srt[i]
                 IN IF IsActive(p, t, current_date)
                       /\ (acc = <<>> \/ Abs(t - p.start_timestamp)
                                < Abs(t - acc[1].start_timestamp))
                    THEN <<p>> ELSE acc
    IN F[Len(srt)]

\* lines 343-346 (and 368-371, 388-391): the lines the searches look at.
IsCandidate(line) ==
    /\ ~(StartsWithDashes(line) \/ Contains(line, NoEpgData)
            \/ Contains(line, NoValidEpgData))
    /\ Contains(line, Dash)

\* lines 348-355 (and 373-380): title and time of the line against the
\* programme; a time_str strptime rejects raises ValueError, and the loop
\* goes on.
LineMatches(line, program) ==
    LET Test(time_str, title) ==
            /\ title = program.title
            /\ Len(time_str) = 1 /\ time_str[1].t = "hm"
            /\ Abs(LineTime(DateOfTs(program.start_timestamp), time_str[1].n)
                     - program.start_timestamp) < 60
        Pieces(pieces) == Test(pieces[1], Split(pieces[2], Paren)[1])
    IN Pieces(Split(line, Dash))

\* lines 342-360 (and 367-384): the index of the first line that matches, as
\* a sequence of no or one index.
FindLine(lines, program) ==
    LET First(hits) ==
            IF hits = {} THEN <<>>
            ELSE <<(CHOOSE i \in hits : \A j \in hits : i <= j) - 1>>
    IN First({i \in DOMAIN lines :
                IsCandidate(lines[i]) /\ LineMatches(lines[i], program)})

\* line 364
FuturePrograms(epglist, current_date) ==
    LET F[i \in 0 .. Len(epglist)] ==
            IF i = 0 THEN <<>>
            ELSE IF epglist[i].start_date >= current_date
                 THEN Append(F[i - 1], epglist[i]) ELSE F[i - 1]
    IN F[Len(epglist)]

\* line 366: min(future_programs, key=...), the first of the minimal ones.
FirstFuture(future) ==
    future[CHOOSE i \in DOMAIN future :
        /\ \A j \in DOMAIN future :
                future[i].start_timestamp <= future[j].start_timestamp
        /\ \A j \in 1 .. i - 1 :
                future[j].start_timestamp > future[i].start_timestamp]

\* the last entry's position counted from one
LastValidLine_OneBased(lines) ==
    LET Last(ok) ==
            IF ok = {} THEN 0 ELSE CHOOSE i \in ok : \A j \in ok : j <= i
    IN Last({i \in DOMAIN lines : IsCandidate(lines[i])})

\* lines 387-393: the last line that is an entry, 0 when there is none.
LastValidLine(lines) ==
    LET Last(ok) ==
            IF ok = {} THEN 0 ELSE (CHOOSE i \in ok : \A j \in ok : j <= i) - 1
    IN Last({i \in DOMAIN lines : IsCandidate(lines[i])})

\* lines 321-395: current_index.
CurrentIndex(lines, epglist, t) ==
    LET current_date == DateOfTs(t)
        Found(h2) == IF h2 # <<>> THEN h2[1] ELSE 0
        Later(future) ==
            IF future # <<>> THEN Found(FindLine(lines, FirstFuture(future)))
            ELSE LastValidLine(lines)
        Active(hit) ==
            IF hit # <<>> THEN hit[1]
            ELSE Later(FuturePrograms(epglist, current_date))
        Current(cur) ==
            Active(IF cur = <<>> THEN <<>> ELSE FindLine(lines, cur[1]))
    IN Current(CurrentProgram(epglist, t, current_date))

\* The fields updateEPGAndPicon leaves: epgLines, epgScrollPos and the epgInfo
\* widget, given the channelList widget cl and the index ed.
updateEPGAndPicon(cl, ed, lines0, pos0, info0, t) ==
    IF HasCurrent(cl)
    THEN LET channel_name == GetCurrent(cl)
             Place(lines, idx) ==
                [epgLines |-> lines, epgScrollPos |-> idx,
                 epgInfo |-> MoveToIndex(SetList(info0, lines), idx)]
             Show(lines) ==
                IF lines # <<>>
                THEN Place(lines,
                           CurrentIndex(lines, EpgList(ed, channel_name), t))
                ELSE [epgLines |-> lines, epgScrollPos |-> pos0,
                      epgInfo |-> info0]
         IN Show(getEPGFromData(ed, channel_name))
    ELSE [epgLines |-> lines0, epgScrollPos |-> pos0,
          epgInfo |-> SetList(info0, <<Msg("Select a channel to view EPG")>>)]

(***************************************************************************)
(* parseXMLData as a whole: the fields it leaves, given the document and   *)
(* the fields before the call.                                             *)
(***************************************************************************)
Titles(cd) == [i \in DOMAIN cd |-> cd[i].title]

\* lines 232-235: the handler of every exception raised in the try block.
ParseFailed(cd, ed, cl0, lines, pos, info0) ==
    [channelData |-> cd, epgData |-> ed, epgLines |-> lines,
     epgScrollPos |-> pos,
     epgInfo |-> SetList(info0, <<Msg("Error parsing EPG data: ")>>),
     channelList |-> SetList(cl0, <<"Error loading channels">>),
     outcome |-> "parse_error"]

parseXMLData(doc, lx, cd0, ed0, cl0, lines0, pos0, info0, t) ==
    IF FromStringRaises(doc, lx)
    THEN ParseFailed(cd0, ed0, cl0, lines0, pos0, info0)
    ELSE LET Shown(cd, ed, cl1, upd) ==
                [channelData |-> cd, epgData |-> ed,
                 epgLines |-> upd.epgLines,
                 epgScrollPos |-> upd.epgScrollPos,
                 epgInfo |-> upd.epgInfo,
                 channelList |-> cl1,
                 outcome |-> "ok"]
             Programmes(cd, cl1, prl) ==
                IF prl.exc
                THEN ParseFailed(cd, prl.ed, cl1, lines0, pos0, info0)
                ELSE Shown(cd, prl.ed, cl1,
                           updateEPGAndPicon(cl1, prl.ed, lines0, pos0,
                                             info0, t))
             Channels(chl) ==
                IF chl.exc
                THEN ParseFailed(chl.cd, chl.ed, cl0, lines0, pos0, info0)
                ELSE IF chl.cd = <<>>
                THEN [channelData |-> chl.cd, epgData |-> chl.ed,
                      epgLines |-> lines0, epgScrollPos |-> pos0,
                      epgInfo |-> SetList(info0,
                            <<Msg("No channels found in EPG data")>>),
                      channelList |-> SetList(cl0, <<"No channels available">>),
                      outcome |-> "no_channels"]
                ELSE Programmes(chl.cd, SetList(cl0, Titles(chl.cd)),
                                ProgrammeLoop(doc.progs, chl.cd, chl.ed, lx))
         IN Channels(ChannelLoop(doc.chans, lx))

(***************************************************************************)
(* The cache file, lines 110-119 and 134-138.  The file is written and     *)
(* read in text mode: open(..., 'w') writes the characters as they are     *)
(* (os.linesep is "\n"), open(..., 'r') reads with universal newlines and  *)
(* hands back "\r\n" and "\r" as "\n".                                     *)
(***************************************************************************)
WriteText(text) == text
ReadText(text) ==
    [text EXCEPT !.eols = [i \in DOMAIN text.eols |-> "LF"]]

NoFile == [exists |-> FALSE, mtime |-> 0, content |-> EmptyText]

\* line 112
CacheFresh(c, t) == c.exists /\ (t - c.mtime) < CACHE_TIME

\* lines 134-138: the file after the attempt to write text at time t.  open()
\* may fail and leave the file alone; write() may fail after open() has
\* truncated the file.
CacheAfterWrite(c, text, t, wr) ==
    CASE wr = "ok" -> [exists |-> TRUE, mtime |-> t, content |-> WriteText(text)]
      [] wr = "write_failed" ->
            [exists |-> TRUE, mtime |-> t, content |-> EmptyText]
      [] OTHER -> c

(***************************************************************************)
(* The inputs: feed elements, documents and clock readings.                *)
(***************************************************************************)
T2000 == 20 * 60
T2100 == 21 * 60
News == <<TXT("News")>>
Film == <<TXT("Film")>>
Film2 == <<TXT("Film"), Paren, TXT("2)")>>

chARD == ChannelElem("c1", "text", "ARD")
chZDF == ChannelElem("c2", "text", "ZDF")
chNoId == ChannelElem("", "text", "RTL")
chErste == ChannelElem("de1", "text", "Das Erste")
chPro7 == ChannelElem("c4", "text", "Pro7.OE")
chIZ == ChannelElem("c5", "text", "IZ TV")
\* a display name of white space only: str.strip() leaves the empty title
chBlank == ChannelElem("c6", "text", "")
chNoName == ChannelElem("c3", "absent", "")
chEmptyName == ChannelElem("c3", "empty", "")
ChanElems ==
    {chARD, chZDF, chNoId, chNoName, chEmptyName, chErste, chPro7, chIZ}

At(d, m) == TimeAttr(<<Stamp(d, m, 0)>>)
\* "News" on ARD from 20:00 to 21:00 of day d, the spec's scenario
pNews(d) == ProgrammeElem("c1", At(d, T2000), At(d, T2100),
                          Text(News), Absent, Absent)
\* start with a time-zone offset, no stop, a description and a category
pFilm == ProgrammeElem("c1", TimeAttr(<<Stamp(1, T2100, 0), BadPiece>>), NoAttr,
                       Text(Film), Text(<<TXT("Plot")>>), Text(<<TXT("Movie")>>))
\* a title that holds " (", starting at 20:00:30 of the last day
pFilm2 == ProgrammeElem("c1", TimeAttr(<<Stamp(MaxDay, T2000, 30)>>),
                        At(MaxDay, T2100), Text(Film2), Absent, Absent)
\* a stop attribute that does not match the format
pBadStop == ProgrammeElem("c1", At(1, T2000), TimeAttr(<<BadPiece>>),
                          Text(News), Absent, Absent)
\* a start attribute with a leading space: its first piece is empty
pBadStart == ProgrammeElem("c1", TimeAttr(<<BadPiece, Stamp(1, T2000, 0)>>),
                           At(1, T2100), Text(News), Absent, Absent)
pNoStart == ProgrammeElem("c1", NoAttr, At(1, T2100), Text(News), Absent, Absent)
\* on ZDF, over midnight, with a description of white space only
pHeute == ProgrammeElem("c2", At(0, T2100), At(1, T2000),
                        Text(<<TXT("Heute")>>), Text(<<>>), Absent)
pUnknownChannel == ProgrammeElem("c9", At(1, T2000), At(1, T2100),
                                 Text(News), Absent, Absent)
\* <desc/>: an element without text
pEmptyDesc == ProgrammeElem("c1", At(0, T2100), NoAttr,
                            Text(Film), Empty, Absent)
pNoTitle == ProgrammeElem("c1", At(1, T2000), At(1, T2100),
                          Absent, Absent, Absent)
ProgElems ==
    {pNews(d) : d \in Days}
        \cup {pFilm, pFilm2, pBadStop, pBadStart, pNoStart, pHeute,
              pUnknownChannel, pEmptyDesc, pNoTitle}

\* the programme elements of the longer feeds: good ones of every day, out
\* of order, and the two kinds of bad time attribute
CoreProgs == {pNews(d) : d \in Days} \cup {pFilm, pFilm2, pBadStop, pBadStart}

SeqsUpTo(S, n) == UNION {[1 .. k -> S] : k \in 0 .. n}

\* the documents parseXMLData is tried on
ParseDocs ==
    {Doc("ok", cs, <<pNews(1), pHeute>>) : cs \in SeqsUpTo(ChanElems, MaxChans)}
        \cup {Doc("ok", <<chARD, chZDF>>, ps) : ps \in SeqsUpTo(CoreProgs, MaxProgs)}
        \cup {Doc("ok", <<chARD, chZDF>>, ps) : ps \in SeqsUpTo(ProgElems, MaxMixed)}
        \cup {Doc(wf, <<chARD>>, <<pNews(1)>>) : wf \in {"recoverable", "garbage"}}
ParseFeeds == {XmlText(d, <<"LF">>) : d \in ParseDocs}

\* the feeds the server may answer with
Feeds ==
    {XmlText(Doc("ok", <<chARD>>, <<pNews(1)>>), <<"LF">>),
     XmlText(Doc("ok", <<chARD>>, <<pNews(1)>>), <<"CRLF">>),
     XmlText(Doc("ok", <<chARD, chZDF>>, <<pNews(0), pHeute, pNews(1), pFilm>>),
             <<"LF">>),
     XmlText(Doc("ok", <<chARD, chEmptyName>>, <<pFilm2, pNews(0)>>), <<"LF">>),
     XmlText(Doc("recoverable", <<chARD>>, <<pBadStop, pFilm>>), <<"LF">>)}

\* the clock: 19:30 and 20:30 of every day
NowSet == {d * DaySecs + m * 60 : d \in Days, m \in {T2000 - 30, T2000 + 30}}

(***************************************************************************)
(* The state machine.                                                      *)
(***************************************************************************)
\* What a run of downloadAndParseData did: when it ran, whether reading the
\* cache was tried ("none", "ok", "failed"), how many GETs it sent, whether the
\* GET brought a text and which, how writing the cache ended and what the file
\* was afterwards, and the text it gave to parseXMLData.
NoRun == [loaded |-> FALSE, at |-> 0, read |-> "none", http |-> 0,
          fetched |-> FALSE, text |-> EmptyText, write |-> "none",
          wrote |-> NoFile, parsed |-> FALSE, xml_data |-> EmptyText]
ReadTried == IF CacheFresh(cache, now) THEN "failed" ELSE "none"

\* __init__, lines 72-107: the fields of a new screen.
NewScreen ==
    /\ pc' = "constructed"
    /\ currentView' = "channels"
    /\ focus_on_channels' = TRUE
    /\ channelData' = <<>>
    /\ epgData' = EmptyDict
    /\ epgLines' = <<>>
    /\ epgScrollPos' = 0
    /\ channelList' = NewMenuList
    /\ epgInfo' = NewMenuList
    /\ tree' = EmptyText.doc
    /\ outcome' = "none"

Init ==
    /\ lxml \in BOOLEAN
    /\ now \in NowSet
    /\ cache = NoFile
    /\ pc = "constructed"
    /\ currentView = "channels"
    /\ focus_on_channels = TRUE
    /\ channelData = <<>>
    /\ epgData = EmptyDict
    /\ epgLines = <<>>
    /\ epgScrollPos = 0
    /\ channelList = NewMenuList
    /\ epgInfo = NewMenuList
    /\ tree = EmptyText.doc
    /\ outcome = "none"
    /\ runs = 1
    /\ run = NoRun
    /\ prev = NoRun

\* self.parseXMLData(xml_data), lines 116 and 140
CallParse(xml_data) ==
    LET Leaves(r) ==
            /\ channelData' = r.channelData
            /\ epgData' = r.epgData
            /\ epgLines' = r.epgLines
            /\ epgScrollPos' = r.epgScrollPos
            /\ epgInfo' = r.epgInfo
            /\ channelList' = r.channelList
            /\ outcome' = r.outcome
            /\ tree' = xml_data.doc
    IN Leaves(parseXMLData(xml_data.doc, lxml, channelData, epgData,
                           channelList, epgLines, epgScrollPos, epgInfo, now))

\* downloadAndParseData, lines 112-117: the cache is fresh and is read.
LoadFromCache ==
    /\ pc = "constructed"
    /\ CacheFresh(cache, now)
    /\ CallParse(ReadText(cache.content))
    /\ run' = [NoRun EXCEPT !.loaded = TRUE, !.at = now, !.read = "ok",
                             !.wrote = cache, !.parsed = TRUE,
                             !.xml_data = ReadText(cache.content)]
    /\ pc' = "shown"
    /\ UNCHANGED <<lxml, now, cache, currentView, focus_on_channels, runs, prev>>

\* line 112 fails, or reading the fresh cache raised (lines 118-119)
MustFetch == pc = "constructed"

\* downloadAndParseData, lines 121-140: the GET succeeds; wr is how the write
\* of the cache ends.
LoadFromNetwork(feed, wr) ==
    /\ MustFetch
    /\ cache' = CacheAfterWrite(cache, feed, now, wr)
    /\ CallParse(feed)
    /\ run' = [loaded |-> TRUE, at |-> now, read |-> ReadTried, http |-> 1,
               fetched |-> TRUE, text |-> feed, write |-> wr, wrote |-> cache',
               parsed |-> TRUE, xml_data |-> feed]
    /\ pc' = "shown"
    /\ UNCHANGED <<lxml, now, currentView, focus_on_channels, runs, prev>>

\* lines 142-147: requests raised (msg "Network error: "), or the body was no
\* gzip or no UTF-8 (msg "Error: ").
LoadFailed(msg, result) ==
    /\ MustFetch
    /\ epgInfo' = SetList(epgInfo, <<Msg(msg)>>)
    /\ outcome' = result
    /\ run' = [NoRun EXCEPT !.loaded = TRUE, !.at = now, !.read = ReadTried,
                             !.http = 1, !.wrote = cache]
    /\ pc' = "shown"
    /\ UNCHANGED <<lxml, now, cache, currentView, focus_on_channels,
                   channelData, epgData, epgLines, epgScrollPos, channelList,
                   tree, runs, prev>>
LoadNetworkError == LoadFailed("Network error: ", "network_error")
LoadGeneralError == LoadFailed("Error: ", "general_error")

\* the three fields updateEPGAndPicon assigns
CallUpdate(cl, pos) ==
    LET Leaves(r) ==
            /\ epgLines' = r.epgLines
            /\ epgScrollPos' = r.epgScrollPos
            /\ epgInfo' = r.epgInfo
    IN Leaves(updateEPGAndPicon(cl, epgData, epgLines, pos, epgInfo, now))

\* lines 404-410.  The assignment of 0 to epgScrollPos is overwritten by
\* updateEPGAndPicon when it renders a channel.
switchView ==
    /\ pc = "shown"
    /\ currentView' = IF currentView = "channels" THEN "epg" ELSE "channels"
    /\ focus_on_channels' = (currentView' = "channels")
    /\ CallUpdate(channelList, 0)
    /\ UNCHANGED <<lxml, now, cache, pc, channelData, epgData, channelList,
                   tree, outcome, runs, run, prev>>

\* lines 415-427
Move(Step(_)) ==
    /\ pc = "shown"
    /\ IF currentView = "channels"
       THEN /\ channelList' = Step(channelList)
            /\ CallUpdate(channelList', epgScrollPos)
       ELSE /\ epgInfo' = Step(epgInfo)
            /\ UNCHANGED <<channelList, epgLines, epgScrollPos>>
    /\ UNCHANGED <<lxml, now, cache, pc, currentView, focus_on_channels,
                   channelData, epgData, tree, outcome, runs, run, prev>>
up == Move(MenuUp)
down == Move(MenuDown)

\* lines 412-413
exit ==
    /\ pc = "shown"
    /\ pc' = "closed"
    /\ UNCHANGED <<lxml, now, cache, currentView, focus_on_channels,
                   channelData, epgData, epgLines, epgScrollPos, channelList,
                   epgInfo, tree, outcome, runs, run, prev>>

\* lines 465-466: session.open(CiefpTvTodayDE), the plugin is started again
main ==
    /\ pc = "closed"
    /\ runs < MaxRuns
    /\ runs' = runs + 1
    /\ NewScreen
    /\ prev' = run
    /\ run' = NoRun
    /\ UNCHANGED <<lxml, now, cache>>

\* time passes
Tick ==
    /\ \E t \in NowSet : t > now /\ now' = t
    /\ UNCHANGED <<lxml, cache, pc, currentView, focus_on_channels,
                   channelData, epgData, epgLines, epgScrollPos, channelList,
                   epgInfo, tree, outcome, runs, run, prev>>

WriteOutcomes == {"ok", "open_failed", "write_failed"}

Next ==
    \/ LoadFromCache
    \/ \E feed \in Feeds, wr \in WriteOutcomes : LoadFromNetwork(feed, wr)
    \/ LoadNetworkError
    \/ LoadGeneralError
    \/ switchView
    \/ up
    \/ down
    \/ exit
    \/ main
    \/ Tick

Spec == Init /\ [][Next]_vars

\* parseXMLData alone, on a new screen and a wider set of documents
ParseOnly(xml_data) ==
    /\ pc = "constructed"
    /\ CallParse(xml_data)
    /\ pc' = "shown"
    /\ UNCHANGED <<lxml, now, cache, currentView, focus_on_channels, runs, run, prev>>

NextParse == \E xml_data \in ParseFeeds : ParseOnly(xml_data)

SpecParse == Init /\ [][NextParse]_vars

\* one load of a new screen, then the keys ok, up and down while time passes
KeyFeeds ==
    Feeds \cup {XmlText(Doc("ok", <<chARD, chBlank>>, <<pNews(0), pFilm>>),
                        <<"LF">>),
                XmlText(Doc("garbage", <<chARD>>, <<pNews(1)>>), <<"LF">>)}
        \cup {XmlText(Doc("ok", <<chARD, chZDF>>, ps), <<"LF">>) :
                    ps \in SeqsUpTo(CoreProgs \cup {pHeute}, MaxMixed)}

NextKeys ==
    \/ \E xml_data \in KeyFeeds : ParseOnly(xml_data)
    \/ switchView
    \/ up
    \/ down
    \/ Tick

SpecKeys == Init /\ [][NextKeys]_vars

(***************************************************************************)
(* What the properties speak of.                                           *)
(***************************************************************************)
\* the elements of a sequence
Range(s) == {s[i] : i \in DOMAIN s}

\* The feed elements, read as the specification reads them.
HasId(ch) == ch.id # ""
HasDisplayName(ch) == ch.dn = "text"
ValidChannel(ch) == HasId(ch) /\ HasDisplayName(ch)
ValidChannels(doc) ==
    LET F[i \in 0 .. Len(doc.chans)] ==
            IF i = 0 THEN <<>>
            ELSE IF ValidChannel(doc.chans[i])
                 THEN Append(F[i - 1], ChannelRecord(doc.chans[i]))
                 ELSE F[i - 1]
    IN F[Len(doc.chans)]
StartOK(e) == e.start.present /\ e.start.pieces[1].ok
StopOK(e) == e.stop.present /\ e.stop.pieces[1].ok
StopBad(e) == e.stop.present /\ ~e.stop.pieces[1].ok
\* the channel reference of e names a channel that was taken in, with title T
RefersTo(e, T) ==
    /\ e.channel # ""
    /\ \E i \in DOMAIN channelData :
            /\ channelData[i].id = e.channel
            /\ channelData[i].title = T
            /\ \A j \in 1 .. i - 1 : channelData[j].id # e.channel
\* the element has a title with text
HasTitle(e) == e.title.st = "text"
\* a programme element with channel reference, title and start time in order,
\* and a stop time that is absent or in order
WellFormed(e, T) ==
    RefersTo(e, T) /\ HasTitle(e) /\ StartOK(e) /\ (~e.stop.present \/ StopOK(e))
\* p is what e is stored as, as far as title and start go
StoredFrom(p, e) ==
    /\ StartOK(e)
    /\ p.title = e.title.text
    /\ p.start_timestamp = Timestamp(e.start.pieces[1])
    /\ p.start_date = e.start.pieces[1].day
Elems == {tree.progs[i] : i \in DOMAIN tree.progs}
Count(P(_)) == Cardinality({i \in DOMAIN tree.progs : P(tree.progs[i])})

\* parseXMLData ran to its end: the document was read and updateEPGAndPicon
\* was called
Parsed == pc = "shown" /\ outcome = "ok"

\* no record of the document makes the code raise outside the time parsing:
\* no channel with an id and no display name text, and (ElementTree) no
\* title, desc or category element without text
NoOtherFault ==
    /\ \A i \in DOMAIN tree.chans :
            ~HasId(tree.chans[i]) \/ HasDisplayName(tree.chans[i])
    /\ \A e \in Elems : e.title.st # "empty" /\ e.desc.st # "empty"
                            /\ e.category.st # "empty"
    /\ \E i \in DOMAIN tree.chans : ValidChannel(tree.chans[i])
    /\ tree.wf = "ok"

\* The programme each display line of a channel stands for: the programmes in
\* the order of their date, then their start, then their place in the index,
\* a separator (NoProgramme) before the first one of every date.
NoProgramme == [title |-> <<>>, desc |-> <<>>, category |-> <<>>,
                stop_timestamp |-> None, start_timestamp |-> None,
                start_date |-> None]
Before(epglist, i, j) ==
    \/ epglist[i].start_date < epglist[j].start_date
    \/ /\ epglist[i].start_date = epglist[j].start_date
       /\ \/ epglist[i].start_timestamp < epglist[j].start_timestamp
          \/ /\ epglist[i].start_timestamp = epglist[j].start_timestamp
             /\ i < j
Ordered(epglist) ==
    LET rank(i) == Cardinality({j \in DOMAIN epglist : Before(epglist, j, i)}) + 1
    IN [k \in DOMAIN epglist |->
            epglist[CHOOSE i \in DOMAIN epglist : rank(i) = k]]
Owners(epglist) ==
    LET ord == Ordered(epglist)
        F[k \in 0 .. Len(ord)] ==
            IF k = 0 THEN <<>>
            ELSE IF k = 1 \/ ord[k - 1].start_date # ord[k].start_date
                 THEN F[k - 1] \o <<NoProgramme, ord[k]>>
                 ELSE Append(F[k - 1], ord[k])
    IN F[Len(ord)]

\* the channel the cursor was resolved for, and its programmes
Selected == GetCurrent(channelList)
SelectedList == EpgList(epgData, Selected)
\* the programme the line under the cursor stands for
CursorOwner ==
    IF epgScrollPos + 1 \in DOMAIN Owners(SelectedList)
    THEN Owners(SelectedList)[epgScrollPos + 1] ELSE NoProgramme

\* the programmes of the selected channel that are on air: start date today,
\* a stop time, and now within [start, stop]
OnAir ==
    {p \in Range(SelectedList) :
        /\ p.start_date = DateOfTs(now)
        /\ p.stop_timestamp # None
        /\ p.start_timestamp <= now /\ now <= p.stop_timestamp}
\* the programmes of today or later
Upcoming == {p \in Range(SelectedList) : p.start_date >= DateOfTs(now)}
\* a line that is neither a date separator nor an informational line
ValidLine(line) ==
    ~(line[1] = SepDash \/ line[1] = NoEpgData \/ line[1] = NoValidEpgData)

(***************************************************************************)
(* The claims.                                                             *)
(***************************************************************************)

\* C1: of two consecutive runs of downloadAndParseData, the first of which
\* fetched the text over the network and the second of which starts less than
\* CACHE_TIME later, the first wrote the fetched text to the cache file and
\* the second parses exactly that text and sends no HTTP request.  Stated
\* here for the runs in which writing and reading the file did not fail.
C1_CacheRoundTrip ==
    (/\ prev.fetched /\ prev.write = "ok"
     /\ run.loaded /\ run.read # "failed"
     /\ run.at - prev.at < CACHE_TIME)
        => (/\ prev.wrote.exists /\ prev.wrote.content = prev.text
            /\ run.parsed /\ run.xml_data = prev.text
            /\ run.http = 0)

\* C2: when downloadAndParseData ends in a document-level failure (the GET
\* failed, or the document cannot be parsed), the channel list and the
\* programme list are both replaced, each holding one explanatory line.
ExplanatoryLines ==
    {Msg("Network error: "), Msg("Error: "), Msg("Error parsing EPG data: ")}
C2_FailureReplacesBothLists ==
    [][(pc = "constructed" /\ outcome' \in {"network_error", "parse_error"})
        => (/\ Len((channelList').list) = 1
            /\ (channelList').list # channelList.list
            /\ Len((epgInfo').list) = 1
            /\ (epgInfo').list[1] \in ExplanatoryLines)]_vars

\* C3: a channel element without an id or without a display name is skipped
\* as one record: channelData holds exactly the other channel elements of the
\* document, and the programmes are still parsed and stored.
HasFaultyChannel ==
    \E i \in DOMAIN tree.chans : ~ValidChannel(tree.chans[i])
C3_FaultyChannelSkipped ==
    (pc = "shown" /\ tree.wf = "ok" /\ HasFaultyChannel)
        => (/\ channelData = ValidChannels(tree)
            /\ ValidChannels(tree) # <<>> =>
                  /\ outcome = "ok"
                  /\ \A T \in DOMAIN epgData :
                        Len(epgData[T]) = Count(LAMBDA e : WellFormed(e, T)))

\* a programme element with channel reference, title and start in order whose
\* stop attribute is present and does not match the format
BadStopCase(e, T) == RefersTo(e, T) /\ HasTitle(e) /\ StartOK(e) /\ StopBad(e)

\* C4, as claimed: a programme with a valid channel reference, title and start
\* whose stop attribute does not match the format is still stored in its
\* channel's index, with stop_timestamp None.
C4_BadStopStoredOpenEnded ==
    Parsed => \A T \in DOMAIN epgData : \A e \in Elems :
        BadStopCase(e, T) =>
            \E k \in DOMAIN epgData[T] :
                StoredFrom(epgData[T][k], e) /\ epgData[T][k].stop_timestamp = None

\* C4, amended: such a programme is dropped, like one whose start does not
\* parse, and the batch goes on: every channel's index holds one programme
\* for each well-formed element (stop absent or matching), and its open-ended
\* programmes are as many as the well-formed elements without a stop attribute.
C4_BadStopDropped ==
    Parsed => \A T \in DOMAIN epgData :
        /\ Len(epgData[T]) = Count(LAMBDA e : WellFormed(e, T))
        /\ Cardinality({k \in DOMAIN epgData[T] :
                            epgData[T][k].stop_timestamp = None})
             = Count(LAMBDA e : WellFormed(e, T) /\ ~e.stop.present)

\* a bad-stop programme was met, and a well-formed one after it was stored
C4_Witness ==
    /\ Parsed
    /\ \E T \in DOMAIN epgData : \E i, j \in DOMAIN tree.progs :
            /\ i < j
            /\ BadStopCase(tree.progs[i], T)
            /\ WellFormed(tree.progs[j], T)
            /\ Len(epgData[T]) >= 1

\* C5: every programme stored in epgData has a start_timestamp parsed from the
\* start attribute of a programme element of its channel, so an element whose
\* start is missing or does not parse is in no channel's index; and dropping
\* it does not abort the batch: in a document none of whose other records
\* makes the parser raise, parseXMLData runs to its end and every well-formed
\* programme element is stored.
C5_StartAlwaysParsed ==
    /\ \A T \in DOMAIN epgData : \A k \in DOMAIN epgData[T] :
            \E e \in Elems : RefersTo(e, T) /\ StoredFrom(epgData[T][k], e)
    /\ (pc = "shown" /\ NoOtherFault) =>
            /\ outcome = "ok"
            /\ \A T \in DOMAIN epgData :
                    Len(epgData[T]) = Count(LAMBDA e : WellFormed(e, T))

\* a programme without a usable start was met, and a well-formed one after it
\* was stored
C5_Witness ==
    /\ Parsed
    /\ \E T \in DOMAIN epgData : \E i, j \in DOMAIN tree.progs :
            /\ i < j
            /\ RefersTo(tree.progs[i], T) /\ HasTitle(tree.progs[i])
            /\ ~StartOK(tree.progs[i])
            /\ WellFormed(tree.progs[j], T)
            /\ \E k \in DOMAIN epgData[T] : StoredFrom(epgData[T][k], tree.progs[j])

\* the resolver ran for a channel that has programmes
Resolved == Parsed /\ HasCurrent(channelList) /\ SelectedList # <<>>

\* C6: whenever the selected channel has a programme that is on air, the
\* cursor is on the entry line of the programme on air with the least
\* |now - start|, not on a separator or on another programme's entry.
C6_CursorOnActive ==
    (Resolved /\ OnAir # {}) =>
        /\ CursorOwner \in OnAir
        /\ \A p \in OnAir : Abs(now - CursorOwner.start_timestamp)
                                <= Abs(now - p.start_timestamp)

\* C7: whenever neither the search for the active programme nor the search
\* for the next one yields a matching entry line, the cursor is on the last
\* line that is neither a separator nor an informational line.
NoActiveLine ==
    LET cur == CurrentProgram(SelectedList, now, DateOfTs(now))
    IN cur = <<>> \/ FindLine(epgLines, cur[1]) = <<>>
NoUpcomingLine ==
    LET future == FuturePrograms(SelectedList, DateOfTs(now))
    IN future = <<>> \/ FindLine(epgLines, FirstFuture(future)) = <<>>
C7_FallbackLastLine ==
    (Resolved /\ NoActiveLine /\ NoUpcomingLine) =>
        /\ epgScrollPos + 1 \in DOMAIN epgLines
        /\ ValidLine(epgLines[epgScrollPos + 1])
        /\ \A i \in DOMAIN epgLines :
                i > epgScrollPos + 1 => ~ValidLine(epgLines[i])

\* C8: whenever no programme of the selected channel is on air and one starts
\* today or later, the cursor is on the entry line of the programme with the
\* earliest start among those of today or later.
C8_CursorOnNext ==
    (Resolved /\ OnAir = {} /\ Upcoming # {}) =>
        /\ CursorOwner \in Upcoming
        /\ \A p \in Upcoming :
                CursorOwner.start_timestamp <= p.start_timestamp

\* "HH:MM - Title (Category)" for a programme element
EntryLine(e) ==
    <<HM(e.start.pieces[1].min), Dash>> \o e.title.text \o <<Paren>>
        \o (IF e.category.st = "text" THEN e.category.text ELSE <<>>)
        \o <<ParenClose>>
\* the text stored as the description of a programme element
StoredDesc(e) ==
    IF e.desc.st = "text" THEN e.desc.text ELSE <<TXT("Nema opisa")>>
LinesOf(T) == Range(getEPGFromData(epgData, T))
\* the spec's scenario: one channel element with one programme "News" from
\* 20:00 to 21:00, without desc and category
Scenario == Parsed /\ tree.progs = <<pNews(1)>> /\ tree.chans[1] = chARD

\* C9, as claimed: a programme whose feed record has no desc element is
\* rendered as the single line "HH:MM - Title (Category)".
C9_NoDescSingleLine ==
    Parsed => \A T \in DOMAIN epgData : \A e \in Elems :
        (WellFormed(e, T) /\ e.desc.st = "absent") => EntryLine(e) \in LinesOf(T)

\* C9, amended: the description is the second line of the entry whenever the
\* stored description is not empty, and a programme without a desc element
\* stores the default "Nema opisa": its entry is "HH:MM - Title (Category)"
\* followed by the line "  Nema opisa"; only a desc of white space gives the
\* single line.  The scenario's feed renders as two display lines, the date
\* separator and that two-line entry.
C9_DescWhenNotEmpty ==
    /\ Parsed => \A T \in DOMAIN epgData : \A e \in Elems :
            WellFormed(e, T) =>
                IF StoredDesc(e) = <<>>
                THEN EntryLine(e) \in LinesOf(T)
                ELSE /\ EntryLine(e) \o <<DescBreak>> \o StoredDesc(e) \in LinesOf(T)
                     /\ \/ EntryLine(e) \notin LinesOf(T)
                        \/ \E f \in Elems : /\ WellFormed(f, T)
                                             /\ StoredDesc(f) = <<>>
                                             /\ EntryLine(f) = EntryLine(e)
    /\ Scenario =>
            getEPGFromData(epgData, "ARD")
                = <<<<SepDash, DATE(1), SepDash>>,
                    <<HM(T2000), Dash, TXT("News"), Paren, ParenClose,
                      DescBreak, TXT("Nema opisa")>>>>

\* the scenario was rendered for the screen
C9_Witness == Scenario /\ Len(epgLines) = 2 /\ Selected = "ARD"

\* C10: for a channel with programmes, in whatever order they were appended,
\* the display lines start with a separator, the separators' dates increase,
\* every programme has one entry, under the separator of its own start_date,
\* and the entries under one separator are in non-decreasing start_timestamp
\* order; for a channel without programmes there is one informational line.
SepDate(line) == line[2].n
C10_LinesOrdered ==
    Parsed => \A T \in DOMAIN epgData :
        LET lines == getEPGFromData(epgData, T)
            epglist == epgData[T]
            seps == {i \in DOMAIN lines : lines[i][1] = SepDash}
            ents == DOMAIN lines \ seps
            SepOf(i) == CHOOSE s \in seps :
                            s < i /\ \A s2 \in seps : s2 < i => s2 <= s
        IN IF epglist = <<>>
           THEN Len(lines) = 1 /\ lines[1] = <<NoEpgData, TXT(T)>>
           ELSE /\ 1 \in seps
                /\ \A s \in seps : lines[s] = <<SepDash, DATE(SepDate(lines[s])), SepDash>>
                /\ \A s1, s2 \in seps :
                        s1 < s2 => SepDate(lines[s1]) < SepDate(lines[s2])
                /\ \A s \in seps : s + 1 \in ents
                /\ \E f \in [ents -> DOMAIN epglist] :
                        /\ \A k \in DOMAIN epglist : \E i \in ents : f[i] = k
                        /\ \A i, j \in ents : f[i] = f[j] => i = j
                        /\ \A i \in ents :
                            /\ lines[i] = Entry(epglist[f[i]])
                            /\ SepDate(lines[SepOf(i)]) = epglist[f[i]].start_date
                        /\ \A i, j \in ents :
                            (i < j /\ SepOf(i) = SepOf(j)) =>
                                epglist[f[i]].start_timestamp
                                    <= epglist[f[j]].start_timestamp

\* a channel whose programmes were appended out of order, over two dates
C10_Witness ==
    /\ Parsed
    /\ \E T \in DOMAIN epgData :
            /\ Len(epgData[T]) >= 3
            /\ \E i, j \in DOMAIN epgData[T] :
                    /\ i < j
                    /\ epgData[T][i].start_timestamp > epgData[T][j].start_timestamp
                    /\ epgData[T][i].start_date = epgData[T][j].start_date
            /\ \E i, j \in DOMAIN epgData[T] :
                    /\ i < j
                    /\ epgData[T][i].start_date > epgData[T][j].start_date
            /\ Len(getEPGFromData(epgData, T)) = 5

\* a lowercase alphanumeric or a dot
LowerAlnumOrDot(c) == c = "." \/ (isalnum(c) /\ c \notin Capitals)
\* the title in lower case
Lowered(title) ==
    LET F[i \in 0 .. Len(title)] ==
            IF i = 0 THEN <<>> ELSE F[i - 1] \o lower(title[i])
    IN F[Len(title)]
\* str without the characters that are no lowercase alphanumeric and no dot
Kept(str) == SelectSeq(str, LowerAlnumOrDot)

\* C11: for every channel element with id and display name that parseXMLData
\* took in, the alias it stored holds only lowercase alphanumerics and dots,
\* and is the (lowercased) title with all other characters removed.
C11_AliasClean ==
    \A i \in DOMAIN channelData :
        /\ \A k \in DOMAIN channelData[i].alias :
                LowerAlnumOrDot(channelData[i].alias[k])
        /\ channelData[i].alias = Kept(Lowered(Chars(channelData[i].title)))

\* C12: in every state that loads and the keys ok (switchView), up and down
\* lead to, a non-empty epgLines has the stored cursor offset inside it,
\* 0 <= epgScrollPos < len(epgLines); and no step of switchView, up or down
\* changes epgData or channelData.
C12_CursorInsideLines ==
    /\ [](epgLines # <<>> => (0 <= epgScrollPos /\ epgScrollPos < Len(epgLines)))
    /\ [][(switchView \/ up \/ down) => UNCHANGED <<epgData, channelData>>]_vars

\* the second channel of a feed was reached with the keys, in the programme
\* view, and the cursor stands on its entry
C12_Witness ==
    /\ pc = "shown" /\ outcome = "ok"
    /\ currentView = "epg" /\ channelList.idx = 1
    /\ Len(channelData) = 2 /\ epgData[channelData[2].title] # <<>>
    /\ Len(epgLines) = 2 /\ epgScrollPos = 1

====
